---- MODULE Spec2Model ----
(***************************************************************************)
(* Scheduling core of the CloudRad backend (schedules app): the            *)
(* ScheduleEvent store, the conflict query, event create/update/delete,    *)
(* weekly-template application and bulk creation (Spec); shift deletion    *)
(* (SpecShifts); duration_hours and calculate_event_date taken alone       *)
(* (SpecPure); two concurrent template applications (SpecRace); the        *)
(* duration of a Shift (SpecShiftDuration); the TemplateDay table          *)
(* (SpecTemplates); check_availability (SpecAvailability).  Next to it:    *)
(* the patient counters of the patients app (SpecPatients), the hospital   *)
(* records of the users app (SpecHospitals) and the chunked uploads of     *)
(* the uploads app (SpecUploads).                                          *)
(*                                                                         *)
(* Dates are day numbers; day 0 is a Wednesday, so weekday(d) is           *)
(* (d + 2) % 7 as Python's date.weekday() (0 = Monday .. 6 = Sunday).      *)
(* Times of day are whole hours in the tables; duration_hours takes them   *)
(* in minutes of the day.  UUID primary keys are drawn from a counter      *)
(* (next_id), which never hands out an id twice.                           *)
(***************************************************************************)
EXTENDS Integers, Sequences, FiniteSets, TLC

\* ------------------------------------------------------------------ bounds
MaxEvents == 2      \* rows ever inserted into ScheduleEvent in one behaviour
MaxDate == 1        \* request dates (start_date, end_date, anchor) are 0..MaxDate
MaxUserIds == 2     \* longest user_ids list of a template / bulk request
MaxAnchor == 13     \* anchors of calculate_event_date taken alone are 0..MaxAnchor
MaxTemplateDays == 5  \* rows of TemplateDay
MaxPatients == 2    \* rows ever inserted into Patient in one behaviour
MaxHospitals == 3   \* rows ever inserted into HospitalInfo in one behaviour
MaxUploads == 1     \* upload sessions started in one behaviour
MaxChunkIndex == 2  \* chunk_index of an upload_chunk request is 0..MaxChunkIndex
MaxTotalChunks == 2 \* total_chunks of an upload_chunk request is 1..MaxTotalChunks

\* --------------------------------------------------------- program values
Users == {"admin", "ann", "bob"}            \* rows of users.User
UserIds == {"ann", "bob", "ghost"}          \* user ids a request may carry ("ghost": no such row)
Actors == Users                             \* request.user (authenticated)
CreateCallers == {"admin", "ann"}           \* callers tried on create: a staff and a non-staff one
AdminCallers == {"admin", "bob"}            \* callers tried on the IsAdminUser endpoints
ACTIVE_STATUSES == {"scheduled", "confirmed"}
STATUS_CHOICES == {"scheduled", "confirmed", "cancelled", "completed"}
NoShift == "none"                           \* a null shift foreign key
NoEvent == 0                                \* an absent event_id
Absent == "absent"                          \* a field a partial update does not carry
AbsentDate == -1                            \* a date a partial update does not carry
RequestDates == 0 .. MaxDate

is_staff(user) == user = "admin"

\* date.weekday(): day 0 is a Wednesday (weekday 2)
weekday(d) == (d + 2) % 7

VARIABLES
    events,       \* the ScheduleEvent table: a set of rows
    next_id,      \* the next fresh primary key
    shifts,       \* the Shift table: id -> [start_time, end_time]
    templates,    \* ScheduleTemplate with its TemplateDay rows: id -> [day_of_week -> shift]
    resp,         \* the last request and its response
    txns,         \* requests in progress on concurrent workers: worker -> transaction
    template_days, \* the TemplateDay table as rows; templates is its view by day_of_week
    patients,     \* the Patient table: a set of rows (each with its PatientStats row)
    next_patient_id, \* the next fresh Patient primary key
    user_stats,   \* the UserStats table: user -> [patients]
    hospitals,    \* the HospitalInfo table: a set of rows
    next_hospital_id, \* the next fresh HospitalInfo primary key
    uploads,      \* the UploadFile table: id -> row
    next_upload_id \* the next fresh UploadFile primary key

\* The tables of the schedules app, and those of the other apps.
schedules_app == <<events, next_id, shifts, templates, txns, template_days>>
other_apps == <<patients, next_patient_id, user_stats, hospitals, next_hospital_id,
                uploads, next_upload_id>>

vars == <<events, next_id, shifts, templates, resp, txns, template_days, other_apps>>

\* ------------------------------------------------------------ the tables
InitShifts ==
    [s \in {"morning", "night"} |->
        IF s = "morning" THEN [start_time |-> 8, end_time |-> 16]
                         ELSE [start_time |-> 22, end_time |-> 6]]

\* unique_together (template, day_of_week): the days of a template are a
\* function of day_of_week.  "week" has a Monday shift and a Tuesday without
\* shift; "split" has a Monday and a Wednesday shift.
InitTemplates ==
    [t \in {"week", "split"} |->
        IF t = "week" THEN (0 :> "morning" @@ 1 :> NoShift)
                      ELSE (0 :> "morning" @@ 2 :> "night")]

TemplateIds == {"week", "split", "gone"}    \* "gone": no such template

\* The same days as rows of TemplateDay.
InitTemplateDays ==
    {[id |-> 1, template |-> "week", day_of_week |-> 0, shift |-> "morning"],
     [id |-> 2, template |-> "week", day_of_week |-> 1, shift |-> NoShift],
     [id |-> 3, template |-> "split", day_of_week |-> 0, shift |-> "morning"],
     [id |-> 4, template |-> "split", day_of_week |-> 2, shift |-> "night"]}

\* template.days of every template, by day_of_week.
template_table(rows) ==
    [t \in {"week", "split"} |->
        [k \in {r.day_of_week : r \in {x \in rows : x.template = t}} |->
            (CHOOSE r \in rows : r.template = t /\ r.day_of_week = k).shift]]

\* unique_together = ['template', 'day_of_week']
unique_together_unchecked(rows, template_id, day_of_week) == FALSE

unique_together_violated(rows, template_id, day_of_week) ==
    \E r \in rows : r.template = template_id /\ r.day_of_week = day_of_week

\* Saving a new TemplateDay row: the foreign keys must resolve, day_of_week is
\* one of DAY_CHOICES, and the database refuses a second row for the same
\* (template, day_of_week).
TemplateDay_create(template_id, day_of_week, shift) ==
    LET row == [id |-> Cardinality(template_days) + 1, template |-> template_id,
                day_of_week |-> day_of_week, shift |-> shift]
        code == IF template_id \notin DOMAIN templates THEN 404
                ELSE IF shift # NoShift /\ shift \notin DOMAIN shifts THEN 404
                ELSE IF unique_together_violated(template_days, template_id, day_of_week)
                THEN 400
                ELSE 201
    IN /\ template_days' = IF code = 201 THEN template_days \cup {row} ELSE template_days
       /\ templates' = template_table(template_days')
       /\ resp' = [op |-> "create_template_day", code |-> code, template_id |-> template_id,
                   day_of_week |-> day_of_week, shift |-> shift]
       /\ UNCHANGED <<events, next_id, shifts, txns, other_apps>>

\* ------------------------------------------------- availability (queries)
\* The overlap filter shared by every conflict query of views.py.
overlap_filter_strict(store, user, start_date, end_date) ==
    {ev \in store :
        /\ ev.user = user
        /\ ev.status \in ACTIVE_STATUSES
        /\ ev.start_date < end_date
        /\ ev.end_date >= start_date}

overlap_filter_daytime(store, user, start_date, end_date) ==
    {ev \in store :
        /\ ev.user = user
        /\ ev.status \in ACTIVE_STATUSES
        /\ ev.start_date <= end_date
        /\ ev.end_date >= start_date
        /\ ev.start_time <= 8
        /\ ev.end_time > 8}

overlap_filter(store, user, start_date, end_date) ==
    {ev \in store :
        /\ ev.user = user
        /\ ev.status \in ACTIVE_STATUSES
        /\ ev.start_date <= end_date
        /\ ev.end_date >= start_date}

\* conflicts.exclude(id=event_id) when an event_id is given
exclude_event(conflicts, event_id) ==
    IF event_id # NoEvent THEN {ev \in conflicts : ev.id # event_id} ELSE conflicts

check_schedule_conflicts_strict(store, user, event_date) ==
    \E ev \in store :
        /\ ev.user = user
        /\ ev.status \in ACTIVE_STATUSES
        /\ ev.start_date < event_date
        /\ ev.end_date >= event_date

check_schedule_conflicts_confirmed(store, user, event_date) ==
    \E ev \in store :
        /\ ev.user = user
        /\ ev.status = "confirmed"
        /\ ev.start_date <= event_date
        /\ ev.end_date >= event_date

check_schedule_conflicts(store, user, event_date) ==
    \E ev \in store :
        /\ ev.user = user
        /\ ev.status \in ACTIVE_STATUSES
        /\ ev.start_date <= event_date
        /\ ev.end_date >= event_date

calculate_event_date_nomod(day_of_week, start_date) ==
    start_date + (IF day_of_week >= weekday(start_date)
                  THEN day_of_week - weekday(start_date)
                  ELSE weekday(start_date) - day_of_week)

calculate_event_date_after(day_of_week, start_date) ==
    start_date + (((day_of_week - weekday(start_date) - 1) % 7) + 1)

calculate_event_date(day_of_week, start_date) ==
    start_date + ((day_of_week - weekday(start_date)) % 7)

\* ---------------------------------------------------- template application
\* acc carries the table and the two result lists through the loops.
create_schedule_event_unlisted(shift, user, event_date, created_by, acc) ==
    LET event == [id |-> acc.next_id,
                  user |-> user,
                  event_type |-> "shift",
                  start_date |-> event_date,
                  end_date |-> event_date,
                  start_time |-> shifts[shift].start_time,
                  end_time |-> shifts[shift].end_time,
                  shift |-> shift,
                  status |-> "scheduled",
                  created_by |-> created_by]
    IN [acc EXCEPT !.events = @ \cup {event},
                   !.next_id = @ + 1]

create_schedule_event(shift, user, event_date, created_by, acc) ==
    LET event == [id |-> acc.next_id,
                  user |-> user,
                  event_type |-> "shift",
                  start_date |-> event_date,
                  end_date |-> event_date,
                  start_time |-> shifts[shift].start_time,
                  end_time |-> shifts[shift].end_time,
                  shift |-> shift,
                  status |-> "scheduled",
                  created_by |-> created_by]
    IN [acc EXCEPT !.events = @ \cup {event},
                   !.next_id = @ + 1,
                   !.created_events = Append(@, event.id)]

\* template.days.all() is ordered by day_of_week; k walks 0..6.
RECURSIVE process_user_template_days_report(_, _, _, _, _, _)
process_user_template_days_report(template, user, start_date, created_by, acc, k) ==
    IF k > 6 THEN acc
    ELSE IF k \notin DOMAIN template
    THEN process_user_template_days_report(template, user, start_date, created_by, acc, k + 1)
    ELSE
        LET event_date == calculate_event_date(k, start_date) IN
        IF template[k] = NoShift \/ check_schedule_conflicts(acc.events, user, event_date)
        THEN process_user_template_days_report(template, user, start_date, created_by,
                 [acc EXCEPT !.skipped_users =
                     Append(@, [user_id |-> user, date |-> event_date,
                                reason |-> "Schedule conflict"])],
                 k + 1)
        ELSE process_user_template_days_report(template, user, start_date, created_by,
                 create_schedule_event(template[k], user, event_date, created_by, acc),
                 k + 1)

RECURSIVE process_user_template_days(_, _, _, _, _, _)
process_user_template_days(template, user, start_date, created_by, acc, k) ==
    IF k > 6 THEN acc
    ELSE IF k \notin DOMAIN template \/ template[k] = NoShift
    THEN process_user_template_days(template, user, start_date, created_by, acc, k + 1)
    ELSE
        LET event_date == calculate_event_date(k, start_date) IN
        IF check_schedule_conflicts(acc.events, user, event_date)
        THEN process_user_template_days(template, user, start_date, created_by,
                 [acc EXCEPT !.skipped_users =
                     Append(@, [user_id |-> user, date |-> event_date,
                                reason |-> "Schedule conflict"])],
                 k + 1)
        ELSE process_user_template_days(template, user, start_date, created_by,
                 create_schedule_event(template[k], user, event_date, created_by, acc),
                 k + 1)

\* The loop over user_ids inside transaction.atomic(): a missing user raises
\* Http404, which rolls the whole transaction back.
RECURSIVE process_users_skip_missing(_, _, _, _, _, _)
process_users_skip_missing(template, start_date, user_ids, created_by, acc, i) ==
    IF i > Len(user_ids) THEN acc
    ELSE IF user_ids[i] \notin Users
    THEN process_users_skip_missing(template, start_date, user_ids, created_by, acc, i + 1)
    ELSE process_users_skip_missing(template, start_date, user_ids, created_by,
             process_user_template_days(template, user_ids[i], start_date,
                                        created_by, acc, 0),
             i + 1)

RECURSIVE process_users(_, _, _, _, _, _)
process_users(template, start_date, user_ids, created_by, acc, i) ==
    IF i > Len(user_ids) THEN acc
    ELSE IF user_ids[i] \notin Users THEN [acc EXCEPT !.code = 404]
    ELSE process_users(template, start_date, user_ids, created_by,
             process_user_template_days(template, user_ids[i], start_date,
                                        created_by, acc, 0),
             i + 1)

process_template_application(template_id, start_date, user_ids, created_by) ==
    LET acc0 == [events |-> events, next_id |-> next_id, code |-> 200,
                 created_events |-> <<>>, skipped_users |-> <<>>]
    IN IF template_id \notin DOMAIN templates
       THEN [acc0 EXCEPT !.code = 404]
       ELSE LET acc == process_users(templates[template_id], start_date, user_ids,
                                     created_by, acc0, 1)
            IN IF acc.code = 404 THEN [acc0 EXCEPT !.code = 404] ELSE acc

UserIdLists == UNION {[1 .. n -> UserIds] : n \in 0 .. MaxUserIds}

\* POST apply_schedule_template: IsAdminUser, request validation, expansion.
apply_schedule_template(actor, template_id, start_date, user_ids) ==
    LET req == [template_id |-> template_id, start_date |-> start_date,
                user_ids |-> user_ids]
        denied == ~is_staff(actor)
        invalid == Len(user_ids) = 0
        out == process_template_application(template_id, start_date, user_ids, actor)
        code == IF denied THEN 403 ELSE IF invalid THEN 400 ELSE out.code
    IN /\ code = 200 => out.next_id <= MaxEvents + 1
       /\ events' = IF code = 200 THEN out.events ELSE events
       /\ next_id' = IF code = 200 THEN out.next_id ELSE next_id
       /\ resp' = [op |-> "apply_template", actor |-> actor, code |-> code, req |-> req,
                   created_events |-> IF code = 200 THEN out.created_events ELSE <<>>,
                   skipped_users |-> IF code = 200 THEN out.skipped_users ELSE <<>>]
       /\ UNCHANGED <<shifts, templates, txns, template_days, other_apps>>

\* ------------------------------------------------------- ScheduleEvent rows
\* ScheduleEvent.clean: the date range of a row must not be reversed.
ScheduleEvent_clean(row) == ~(row.end_date < row.start_date)

\* ScheduleEventCreateSerializer.is_valid (createEvent's validation): the user
\* must exist, the range must be valid, and the Availability Index must
\* report no conflict for (user, start_date, end_date).
create_errors_norange(store, data) ==
    IF data.user \notin Users THEN "not_found"
    ELSE IF overlap_filter(store, data.user, data.start_date, data.end_date) # {}
    THEN "conflict"
    ELSE "ok"

create_errors(store, data) ==
    IF data.user \notin Users THEN "not_found"
    ELSE IF ~ScheduleEvent_clean(data) THEN "invalid_range"
    ELSE IF overlap_filter(store, data.user, data.start_date, data.end_date) # {}
    THEN "conflict"
    ELSE "ok"

\* POST create_schedule_event, the request handler (views.py defines the name
\* twice; the second definition is the template helper above): a non-staff
\* caller can only book for themselves; the row is saved with
\* created_by = request.user and status "scheduled".
request_data_as_sent(actor, data0) == data0

\* data = request.data.copy(); a non-staff caller's 'user' is overwritten.
request_data(actor, data0) ==
    IF ~is_staff(actor) THEN [data0 EXCEPT !.user = actor] ELSE data0

create_schedule_event_view(actor, data0) ==
    LET data == request_data(actor, data0)
        err == create_errors(events, data)
        event == [id |-> next_id,
                  user |-> data.user,
                  event_type |-> data.event_type,
                  start_date |-> data.start_date,
                  end_date |-> data.end_date,
                  start_time |-> data.start_time,
                  end_time |-> data.end_time,
                  shift |-> NoShift,
                  status |-> "scheduled",
                  created_by |-> actor]
    IN /\ err = "ok" => next_id <= MaxEvents
       /\ events' = IF err = "ok" THEN events \cup {event} ELSE events
       /\ next_id' = IF err = "ok" THEN next_id + 1 ELSE next_id
       /\ resp' = [op |-> "create_event", actor |-> actor,
                   code |-> IF err = "ok" THEN 201 ELSE 400, err |-> err,
                   req |-> data, sent_user |-> data0.user,
                   event_id |-> IF err = "ok" THEN next_id ELSE NoEvent]
       /\ UNCHANGED <<shifts, templates, txns, template_days, other_apps>>

\* ScheduleEvent.duration_hours.  Times are minutes of the day; the result,
\* round(hours, 2), is given in hundredths of an hour (800 is 8.0).  A whole
\* number of minutes is never half-way between two hundredths of an hour, so
\* rounding to the nearest hundredth is floor(x + 1/2).
round2_hours(minutes) == (10 * minutes + 3) \div 6

duration_hours_nowrap(all_day, start_date, start_time, end_date, end_time) ==
    IF all_day THEN 800
    ELSE round2_hours((end_date * 24 * 60 + end_time) - (start_date * 24 * 60 + start_time))

duration_hours_timed(all_day, start_date, start_time, end_date, end_time) ==
    LET start_dt == start_date * 24 * 60 + start_time
        end_dt == end_date * 24 * 60 + end_time
        end_dt1 == IF end_date = start_date /\ end_time < start_time
                   THEN end_dt + 24 * 60 ELSE end_dt
    IN round2_hours(end_dt1 - start_dt)

duration_hours(all_day, start_date, start_time, end_date, end_time) ==
    IF all_day THEN 800
    ELSE LET start_dt == start_date * 24 * 60 + start_time
             end_dt == end_date * 24 * 60 + end_time
             end_dt1 == IF end_date = start_date /\ end_time < start_time
                        THEN end_dt + 24 * 60 ELSE end_dt
         IN round2_hours(end_dt1 - start_dt)

\* serializer.save() of a partial update: the fields the patch carries.
apply_patch(instance, patch) ==
    [instance EXCEPT
        !.user = IF patch.user = Absent THEN @ ELSE patch.user,
        !.start_date = IF patch.start_date = AbsentDate THEN @ ELSE patch.start_date,
        !.end_date = IF patch.end_date = AbsentDate THEN @ ELSE patch.end_date,
        !.status = IF patch.status = Absent THEN @ ELSE patch.status]

\* updateEvent's conflict check: re-run, excluding the event itself, when
\* user, start_date or end_date change.
update_conflicts_noexclude(store, instance, new) ==
    overlap_filter(store, new.user, new.start_date, new.end_date)

update_conflicts_none(store, instance, new) == {}

update_conflicts(store, instance, new) ==
    IF \/ new.user # instance.user
       \/ new.start_date # instance.start_date
       \/ new.end_date # instance.end_date
    THEN exclude_event(overlap_filter(store, new.user, new.start_date, new.end_date),
                       instance.id)
    ELSE {}

\* ScheduleEventSerializer.is_valid on an update.
update_errors_terminal(store, instance, new) ==
    IF new.user \notin Users THEN "not_found"
    ELSE IF ~ScheduleEvent_clean(new) THEN "invalid_range"
    ELSE IF instance.status \in {"cancelled", "completed"} /\ new.status # instance.status
    THEN "invalid_transition"
    ELSE IF update_conflicts(store, instance, new) # {} THEN "conflict"
    ELSE "ok"

update_errors(store, instance, new) ==
    IF new.user \notin Users THEN "not_found"
    ELSE IF ~ScheduleEvent_clean(new) THEN "invalid_range"
    ELSE IF update_conflicts(store, instance, new) # {} THEN "conflict"
    ELSE "ok"

\* event.user != request.user and not request.user.is_staff
permission_denied_never(event, actor) == FALSE

permission_denied(event, actor) == event.user # actor /\ ~is_staff(actor)

\* event.delete(): nothing references a ScheduleEvent, so nothing cascades.
delete_event_cascade(store, event) == {ev \in store : ev.user # event.user}

delete_event(store, event) == store \ {event}

\* PUT/PATCH/DELETE schedule_event_detail.
schedule_event_detail(actor, method, event_id, patch) ==
    LET found == {ev \in events : ev.id = event_id}
        event == CHOOSE ev \in found : TRUE
        new == apply_patch(event, patch)
        err == IF found = {} THEN "not_found"
               ELSE IF permission_denied(event, actor) THEN "forbidden"
               ELSE IF method = "DELETE" THEN "ok"
               ELSE update_errors(events, event, new)
        code == CASE err = "not_found" /\ found = {} -> 404
                  [] err = "forbidden" -> 403
                  [] err = "ok" -> 200
                  [] OTHER -> 400
    IN /\ events' = IF err # "ok" THEN events
                    ELSE IF method = "DELETE" THEN delete_event(events, event)
                    ELSE (events \ {event}) \cup {new}
       /\ resp' = [op |-> IF method = "DELETE" THEN "delete_event" ELSE "update_event",
                   actor |-> actor, code |-> code, err |-> err,
                   event_id |-> event_id, patch |-> patch]
       /\ UNCHANGED <<next_id, shifts, templates, txns, template_days, other_apps>>

\* ------------------------------------------------------------ bulk creation
\* The loop of bulk_create_schedule_events inside transaction.atomic().  A
\* user with a conflict is skipped; for any other user the view calls
\* ScheduleEvent.objects.create(..., shift=Shift, ...) with the model class
\* Shift itself, which Django refuses (ValueError: "ScheduleEvent.shift" must
\* be a "Shift" instance): the request ends in a server error and the
\* transaction is rolled back.
RECURSIVE bulk_loop(_, _, _, _, _)
bulk_loop(user_ids, start_date, end_date, acc, i) ==
    IF i > Len(user_ids) THEN acc
    ELSE IF user_ids[i] \notin Users THEN [acc EXCEPT !.code = 404]
    ELSE IF overlap_filter(acc.events, user_ids[i], start_date, end_date) # {}
    THEN bulk_loop(user_ids, start_date, end_date,
             [acc EXCEPT !.skipped_users =
                 Append(@, [user_id |-> user_ids[i], reason |-> "Schedule conflict"])],
             i + 1)
    ELSE [acc EXCEPT !.code = 500]

bulk_create_schedule_events(actor, user_ids, start_date, end_date) ==
    LET req == [user_ids |-> user_ids, start_date |-> start_date, end_date |-> end_date]
        acc0 == [events |-> events, next_id |-> next_id, code |-> 201,
                 created_events |-> <<>>, skipped_users |-> <<>>]
        out == bulk_loop(user_ids, start_date, end_date, acc0, 1)
        code == IF ~is_staff(actor) THEN 403
                ELSE IF Len(user_ids) = 0 THEN 400
                ELSE out.code
    IN /\ events' = IF code = 201 THEN out.events ELSE events
       /\ next_id' = IF code = 201 THEN out.next_id ELSE next_id
       /\ resp' = [op |-> "bulk_create", actor |-> actor, code |-> code, req |-> req,
                   created_events |-> IF code = 201 THEN out.created_events ELSE <<>>,
                   skipped_users |-> IF code = 201 THEN out.skipped_users ELSE <<>>]
       /\ UNCHANGED <<shifts, templates, txns, template_days, other_apps>>

\* ----------------------------------------------------------- conflict query
\* POST check_conflicts: 400 for an unknown user, else the overlap filter,
\* less the excluded event, with its size.
check_conflicts(user_id, start_date, end_date, event_id) ==
    LET conflicts == exclude_event(overlap_filter(events, user_id, start_date, end_date),
                                   event_id)
        ok == user_id \in Users
    IN /\ resp' = [op |-> "check_conflicts", code |-> IF ok THEN 200 ELSE 400,
                   req |-> [user_id |-> user_id, start_date |-> start_date,
                            end_date |-> end_date, event_id |-> event_id],
                   has_conflicts |-> ok /\ conflicts # {},
                   conflict_count |-> IF ok THEN Cardinality(conflicts) ELSE 0,
                   conflicts |-> IF ok THEN {ev.id : ev \in conflicts} ELSE {}]
       /\ UNCHANGED <<events, next_id, shifts, templates, txns, template_days, other_apps>>

\* ------------------------------------------------------------- availability
\* One entry of check_availability's results: the user's scheduled or
\* confirmed events that overlap the range, or the "User not found" entry.
availability_result(store, user_id, start_date, end_date) ==
    LET conflicts == overlap_filter(store, user_id, start_date, end_date)
    IN IF user_id \in Users
       THEN [user_id |-> user_id,
             is_available |-> conflicts = {},
             conflicts |-> {ev.id : ev \in conflicts},
             conflict_count |-> Cardinality(conflicts)]
       ELSE [user_id |-> user_id,
             is_available |-> FALSE,
             conflicts |-> {},
             conflict_count |-> 0,
             error |-> "User not found"]

\* POST check_availability: 400 for an empty user_ids, else one entry per
\* listed id, in order; the table is only read.
check_availability(user_ids, start_date, end_date) ==
    LET ok == Len(user_ids) > 0
    IN /\ resp' = [op |-> "check_availability", code |-> IF ok THEN 200 ELSE 400,
                   req |-> [user_ids |-> user_ids, start_date |-> start_date,
                            end_date |-> end_date],
                   results |-> IF ok
                               THEN [i \in 1 .. Len(user_ids) |->
                                        availability_result(events, user_ids[i],
                                                            start_date, end_date)]
                               ELSE <<>>]
       /\ UNCHANGED <<events, next_id, shifts, templates, txns, template_days, other_apps>>

\* ----------------------------------------------------------------- patients
\* users.User.role: ann and bob are doctors, admin is the staff account.
role(user) == IF user = "admin" THEN "admin" ELSE "doctor"

NoDoctor == "null"          \* a null primary_doctor

\* UserStats rows: ann and admin have one, bob has none (UserStats.DoesNotExist).
InitUserStats == [u \in {"admin", "ann"} |-> [patients |-> 0]]

\* stats = patient.primary_doctor.stats; stats.patients += 1; stats.save(),
\* passed over when the doctor has no UserStats row.
increment_patients(stats, doctor) ==
    IF doctor \in DOMAIN stats
    THEN [stats EXCEPT ![doctor].patients = @ + 1]
    ELSE stats

\* stats.patients = max(0, stats.patients - 1); stats.save()
decrement_patients(stats, doctor) ==
    IF doctor \in DOMAIN stats
    THEN [stats EXCEPT ![doctor].patients = IF @ - 1 > 0 THEN @ - 1 ELSE 0]
    ELSE stats

\* POST create_patient.  data_doctor is the primary_doctor the request
\* carries (Absent: none); valid stands for the other fields passing
\* PatientCreateSerializer (national_id unique, required fields present).
create_patient(actor, data_doctor, valid) ==
    LET doctor == IF data_doctor = Absent
                  THEN (IF role(actor) = "doctor" THEN actor ELSE NoDoctor)
                  ELSE data_doctor
        ok == /\ valid
              /\ doctor = NoDoctor \/ (doctor \in Users /\ role(doctor) = "doctor")
        patient == [id |-> next_patient_id, primary_doctor |-> doctor,
                    is_archived |-> FALSE, is_active |-> TRUE, status |-> "Active"]
    IN /\ patients' = IF ok THEN patients \cup {patient} ELSE patients
       /\ next_patient_id' = IF ok THEN next_patient_id + 1 ELSE next_patient_id
       /\ user_stats' = IF ok /\ doctor # NoDoctor
                        THEN increment_patients(user_stats, doctor)
                        ELSE user_stats
       /\ resp' = [op |-> "create_patient", actor |-> actor,
                   code |-> IF ok THEN 201 ELSE 400,
                   patient_id |-> IF ok THEN next_patient_id ELSE 0]
       /\ UNCHANGED <<schedules_app, hospitals, next_hospital_id, uploads, next_upload_id>>

\* primary_doctor != request.user and not request.user.is_staff
patient_forbidden(patient, actor) ==
    patient.primary_doctor # actor /\ ~is_staff(actor)

\* DELETE delete_patient: archives the patient and decrements the doctor's
\* count, whether or not the patient was archived already.
delete_patient(actor, patient_id) ==
    LET found == {pt \in patients : pt.id = patient_id}
        patient == CHOOSE pt \in found : TRUE
        code == IF found = {} THEN 404
                ELSE IF patient_forbidden(patient, actor) THEN 403
                ELSE 200
        archived == [patient EXCEPT !.is_archived = TRUE, !.is_active = FALSE,
                                    !.status = "Inactive"]
    IN /\ patients' = IF code = 200 THEN (patients \ {patient}) \cup {archived}
                      ELSE patients
       /\ user_stats' = IF code = 200 /\ patient.primary_doctor # NoDoctor
                        THEN decrement_patients(user_stats, patient.primary_doctor)
                        ELSE user_stats
       /\ resp' = [op |-> "delete_patient", actor |-> actor, code |-> code,
                   patient_id |-> patient_id]
       /\ UNCHANGED <<schedules_app, next_patient_id, hospitals, next_hospital_id,
                      uploads, next_upload_id>>

\* POST restore_patient: 400 unless the patient is archived.
restore_patient(actor, patient_id) ==
    LET found == {pt \in patients : pt.id = patient_id}
        patient == CHOOSE pt \in found : TRUE
        code == IF found = {} THEN 404
                ELSE IF patient_forbidden(patient, actor) THEN 403
                ELSE IF ~patient.is_archived THEN 400
                ELSE 200
        restored == [patient EXCEPT !.is_archived = FALSE, !.is_active = TRUE,
                                    !.status = "Active"]
    IN /\ patients' = IF code = 200 THEN (patients \ {patient}) \cup {restored}
                      ELSE patients
       /\ user_stats' = IF code = 200 /\ patient.primary_doctor # NoDoctor
                        THEN increment_patients(user_stats, patient.primary_doctor)
                        ELSE user_stats
       /\ resp' = [op |-> "restore_patient", actor |-> actor, code |-> code,
                   patient_id |-> patient_id]
       /\ UNCHANGED <<schedules_app, next_patient_id, hospitals, next_hospital_id,
                      uploads, next_upload_id>>

\* POST permanent_delete_patient: staff only, archived patients only; it
\* decrements the doctor's count and deletes the row.
permanent_delete_patient(actor, patient_id) ==
    LET found == {pt \in patients : pt.id = patient_id}
        patient == CHOOSE pt \in found : TRUE
        code == IF ~is_staff(actor) THEN 403
                ELSE IF found = {} THEN 404
                ELSE IF ~patient.is_archived THEN 400
                ELSE 200
    IN /\ patients' = IF code = 200 THEN patients \ {patient} ELSE patients
       /\ user_stats' = IF code = 200 /\ patient.primary_doctor # NoDoctor
                        THEN decrement_patients(user_stats, patient.primary_doctor)
                        ELSE user_stats
       /\ resp' = [op |-> "permanent_delete_patient", actor |-> actor, code |-> code,
                   patient_id |-> patient_id]
       /\ UNCHANGED <<schedules_app, next_patient_id, hospitals, next_hospital_id,
                      uploads, next_upload_id>>

\* ---------------------------------------------------------------- hospitals
\* The hospital record that registration creates for a user who names a
\* hospital: the first hospital is primary.
InitHospitals == {[id |-> 1, user |-> "ann", is_primary |-> TRUE]}

\* Whether a User has the attribute the views read as request.user.hospitals:
\* HospitalInfo.user declares related_name='hospital', so the reverse manager
\* is user.hospital and user.hospitals raises AttributeError.
has_hospitals_manager(user) == FALSE

\* user.hospitals.filter(is_primary=True).exclude(id=hospital_id)
\*     .update(is_primary=False)
unmark_primary(rows, user, hospital_id) ==
    {IF h.user = user /\ h.is_primary /\ h.id # hospital_id
     THEN [h EXCEPT !.is_primary = FALSE] ELSE h : h \in rows}

\* POST user_hospitals.  is_primary is the validated value (False when the
\* request does not carry it); valid stands for the other fields passing
\* HospitalInfoSerializer.  An unhandled AttributeError is a server error.
user_hospitals_post(actor, is_primary, valid) ==
    LET raises == valid /\ is_primary /\ ~has_hospitals_manager(actor)
        code == IF ~valid THEN 400 ELSE IF raises THEN 500 ELSE 201
        unmarked == IF is_primary THEN unmark_primary(hospitals, actor, 0) ELSE hospitals
        hospital == [id |-> next_hospital_id, user |-> actor, is_primary |-> is_primary]
    IN /\ hospitals' = IF code = 201 THEN unmarked \cup {hospital} ELSE hospitals
       /\ next_hospital_id' = IF code = 201 THEN next_hospital_id + 1
                              ELSE next_hospital_id
       /\ resp' = [op |-> "add_hospital", actor |-> actor, code |-> code,
                   hospital_id |-> IF code = 201 THEN next_hospital_id ELSE 0,
                   is_primary |-> is_primary]
       /\ UNCHANGED <<schedules_app, patients, next_patient_id, user_stats,
                      uploads, next_upload_id>>

\* PUT/PATCH user_hospital_detail.  is_primary is the value the request
\* carries ("true", "false", or Absent: none); a PUT without it takes the serializer field's
\* default False, a PATCH without it leaves the column alone.
user_hospital_detail_update(actor, method, hospital_id, is_primary) ==
    LET found == {h \in hospitals : h.id = hospital_id}
        hospital == CHOOSE h \in found : TRUE
        validated == IF is_primary # Absent THEN is_primary
                     ELSE IF method = "PUT" THEN "false"
                     ELSE Absent
        marking == validated = "true"
        code == IF found = {} THEN 404
                ELSE IF hospital.user # actor THEN 403
                ELSE IF marking /\ ~has_hospitals_manager(actor) THEN 500
                ELSE 200
        unmarked == IF marking THEN unmark_primary(hospitals, actor, hospital_id)
                    ELSE hospitals
        saved == IF validated = Absent THEN hospital
                 ELSE [hospital EXCEPT !.is_primary = (validated = "true")]
    IN /\ hospitals' = IF code = 200 THEN (unmarked \ {hospital}) \cup {saved}
                       ELSE hospitals
       /\ resp' = [op |-> "update_hospital", actor |-> actor, code |-> code,
                   hospital_id |-> hospital_id, is_primary |-> is_primary,
                   method |-> method]
       /\ UNCHANGED <<schedules_app, patients, next_patient_id, user_stats,
                      next_hospital_id, uploads, next_upload_id>>

\* DELETE user_hospital_detail: refused for the user's only hospital record.
user_hospital_detail_delete(actor, hospital_id) ==
    LET found == {h \in hospitals : h.id = hospital_id}
        hospital == CHOOSE h \in found : TRUE
        code == IF found = {} THEN 404
                ELSE IF hospital.user # actor THEN 403
                ELSE IF ~has_hospitals_manager(actor) THEN 500
                ELSE IF Cardinality({h \in hospitals : h.user = actor}) <= 1 THEN 400
                ELSE 200
    IN /\ hospitals' = IF code = 200 THEN hospitals \ {hospital} ELSE hospitals
       /\ resp' = [op |-> "delete_hospital", actor |-> actor, code |-> code,
                   hospital_id |-> hospital_id]
       /\ UNCHANGED <<schedules_app, patients, next_patient_id, user_stats,
                      next_hospital_id, uploads, next_upload_id>>

\* POST set_primary_hospital: unmark the user's other primary hospitals, then
\* mark this one.
set_primary_hospital(actor, hospital_id) ==
    LET found == {h \in hospitals : h.id = hospital_id}
        hospital == CHOOSE h \in found : TRUE
        code == IF found = {} THEN 404
                ELSE IF hospital.user # actor THEN 403
                ELSE IF ~has_hospitals_manager(actor) THEN 500
                ELSE 200
        unmarked == unmark_primary(hospitals, actor, hospital_id)
    IN /\ hospitals' = IF code = 200
                       THEN (unmarked \ {hospital})
                              \cup {[hospital EXCEPT !.is_primary = TRUE]}
                       ELSE hospitals
       /\ resp' = [op |-> "set_primary_hospital", actor |-> actor, code |-> code,
                   hospital_id |-> hospital_id]
       /\ UNCHANGED <<schedules_app, patients, next_patient_id, user_stats,
                      next_hospital_id, uploads, next_upload_id>>

\* ------------------------------------------------------------------ uploads
NoPatient == "nopatient"    \* a null UploadFile.patient

\* An upload that failed earlier: status 'error' with a message.  The field
\* doctor is the primary doctor of the upload's patient (NoDoctor: the
\* patient has none; NoPatient: the upload has no patient).
InitUploads ==
    1 :> [status |-> "error", progress |-> 50, error_message |-> "failed",
          doctor |-> "ann"]

\* not request.user.is_staff and upload.patient
\*     and upload.patient.primary_doctor != request.user
upload_forbidden(upload, actor) ==
    ~is_staff(actor) /\ upload.doctor # NoPatient /\ upload.doctor # actor

\* POST retry_upload: only an upload in status 'error' is reset.
retry_upload(actor, upload_id) ==
    LET code == IF upload_id \notin DOMAIN uploads THEN 404
                ELSE IF upload_forbidden(uploads[upload_id], actor) THEN 403
                ELSE IF uploads[upload_id].status # "error" THEN 400
                ELSE 200
    IN /\ uploads' = IF code = 200
                     THEN [uploads EXCEPT ![upload_id].status = "pending",
                                          ![upload_id].progress = 0,
                                          ![upload_id].error_message = ""]
                     ELSE uploads
       /\ resp' = [op |-> "retry_upload", actor |-> actor, code |-> code,
                   upload_id |-> upload_id]
       /\ UNCHANGED <<schedules_app, patients, next_patient_id, user_stats,
                      hospitals, next_hospital_id, next_upload_id>>

\* POST start_chunked_upload: a new 'pending' upload at progress 0.  valid
\* stands for the request passing ChunkedUploadSerializer.
start_chunked_upload(actor, doctor, valid) ==
    LET upload == [status |-> "pending", progress |-> 0, error_message |-> "",
                   doctor |-> doctor]
    IN /\ uploads' = IF valid THEN uploads @@ (next_upload_id :> upload) ELSE uploads
       /\ next_upload_id' = IF valid THEN next_upload_id + 1 ELSE next_upload_id
       /\ resp' = [op |-> "start_chunked_upload", actor |-> actor,
                   code |-> IF valid THEN 200 ELSE 400,
                   upload_id |-> IF valid THEN next_upload_id ELSE 0]
       /\ UNCHANGED <<schedules_app, patients, next_patient_id, user_stats,
                      hospitals, next_hospital_id>>

\* int((chunk_index + 1) / total_chunks * 100): the float product truncated,
\* which for the indices and totals used here is the integer quotient.
chunk_progress(chunk_index, total_chunks) ==
    ((chunk_index + 1) * 100) \div total_chunks

\* POST upload_chunk with integer chunk_index and total_chunks and a chunk
\* file: the upload becomes 'uploading' at the computed progress, or
\* 'uploaded' at 100 when the chunk is the last one.
upload_chunk(actor, upload_id, chunk_index, total_chunks) ==
    LET code == IF upload_id \notin DOMAIN uploads THEN 404
                ELSE IF upload_forbidden(uploads[upload_id], actor) THEN 403
                ELSE 200
        last == chunk_index = total_chunks - 1
    IN /\ uploads' = IF code = 200
                     THEN [uploads EXCEPT
                             ![upload_id].status =
                                 IF last THEN "uploaded" ELSE "uploading",
                             ![upload_id].progress =
                                 IF last THEN 100
                                 ELSE chunk_progress(chunk_index, total_chunks)]
                     ELSE uploads
       /\ resp' = [op |-> "upload_chunk", actor |-> actor, code |-> code,
                   upload_id |-> upload_id, chunk_index |-> chunk_index,
                   total_chunks |-> total_chunks]
       /\ UNCHANGED <<schedules_app, patients, next_patient_id, user_stats,
                      hospitals, next_hospital_id, next_upload_id>>

\* ------------------------------------------------------------------- shifts
\* ScheduleEvent.objects.filter(shift=shift).exists()
shift_in_use_never(store, shift_id) == FALSE

shift_in_use(store, shift_id) == \E ev \in store : ev.shift = shift_id

\* shift.delete(): the row goes, and the foreign keys on_delete=SET_NULL of
\* TemplateDay.shift and ScheduleEvent.shift that point at it become null.
delete_shift_templates(shift_id) ==
    [t \in DOMAIN templates |->
        [k \in DOMAIN templates[t] |->
            IF templates[t][k] = shift_id THEN NoShift ELSE templates[t][k]]]

delete_shift_template_days(shift_id) ==
    {IF r.shift = shift_id THEN [r EXCEPT !.shift = NoShift] ELSE r : r \in template_days}

delete_shift_events(store, shift_id) ==
    {IF ev.shift = shift_id THEN [ev EXCEPT !.shift = NoShift] ELSE ev : ev \in store}

\* DELETE shift_detail.
shift_detail_delete(actor, shift_id) ==
    LET code == IF shift_id \notin DOMAIN shifts THEN 404
                ELSE IF ~is_staff(actor) THEN 403
                ELSE IF shift_in_use(events, shift_id) THEN 400
                ELSE 200
    IN /\ shifts' = IF code = 200
                     THEN [s \in DOMAIN shifts \ {shift_id} |-> shifts[s]]
                     ELSE shifts
       /\ templates' = IF code = 200 THEN delete_shift_templates(shift_id) ELSE templates
       /\ events' = IF code = 200 THEN delete_shift_events(events, shift_id) ELSE events
       /\ resp' = [op |-> "delete_shift", actor |-> actor, code |-> code,
                   shift_id |-> shift_id]
       /\ template_days' = IF code = 200 THEN delete_shift_template_days(shift_id)
                            ELSE template_days
       /\ UNCHANGED <<next_id, txns, other_apps>>

\* ------------------------------------------------------------ request inputs
NoResp == [op |-> "none", code |-> 0]

Workers == {"w1", "w2"}                 \* worker processes serving requests concurrently
IdleTxn == [pc |-> "idle"]
NoTxns == [w \in Workers |-> IdleTxn]

EventIds == 1 .. (MaxEvents + 1)       \* MaxEvents + 1 is never a row's id

CreateData ==
    [user : UserIds, start_date : RequestDates, end_date : RequestDates,
     event_type : {"meeting"}, start_time : {9}, end_time : {17}]

NoPatch ==
    [user |-> Absent, start_date |-> AbsentDate, end_date |-> AbsentDate, status |-> Absent]

\* The event's own current values, sent back unchanged.
IdentityPatch(event) ==
    [user |-> event.user, start_date |-> event.start_date,
     end_date |-> event.end_date, status |-> event.status]

Patches(event_id) ==
    {[NoPatch EXCEPT !.user = u] : u \in UserIds}
    \cup {[NoPatch EXCEPT !.status = s] : s \in STATUS_CHOICES}
    \cup {[NoPatch EXCEPT !.start_date = s, !.end_date = e] :
            s \in RequestDates, e \in RequestDates}
    \cup {IdentityPatch(ev) : ev \in {x \in events : x.id = event_id}}

Init ==
    /\ events = {}
    /\ next_id = 1
    /\ shifts = InitShifts
    /\ templates = InitTemplates
    /\ resp = NoResp
    /\ txns = NoTxns
    /\ patients = {}
    /\ next_patient_id = 1
    /\ user_stats = InitUserStats
    /\ hospitals = InitHospitals
    /\ next_hospital_id = 2
    /\ uploads = InitUploads
    /\ next_upload_id = 2
    /\ template_days = InitTemplateDays

\* One request is handled at a time: a handler runs when no response is
\* pending, and Deliver hands the pending response to the client.
ApplyTemplate ==
    /\ resp = NoResp
    /\ \E actor \in AdminCallers, template_id \in TemplateIds, start_date \in RequestDates,
          user_ids \in UserIdLists :
           apply_schedule_template(actor, template_id, start_date, user_ids)

CreateEvent ==
    /\ resp = NoResp
    /\ \E actor \in CreateCallers, data \in CreateData :
           create_schedule_event_view(actor, data)

UpdateEvent ==
    /\ resp = NoResp
    /\ \E actor \in Actors, event_id \in EventIds :
         \E patch \in Patches(event_id) :
           schedule_event_detail(actor, "PATCH", event_id, patch)

DeleteEvent ==
    /\ resp = NoResp
    /\ \E actor \in Actors, event_id \in EventIds :
           schedule_event_detail(actor, "DELETE", event_id, NoPatch)

BulkCreate ==
    /\ resp = NoResp
    /\ \E actor \in AdminCallers, user_ids \in UserIdLists,
          start_date \in RequestDates, end_date \in RequestDates :
           bulk_create_schedule_events(actor, user_ids, start_date, end_date)

CheckConflicts ==
    /\ resp = NoResp
    /\ \E user_id \in UserIds, start_date \in RequestDates, end_date \in RequestDates,
          event_id \in {NoEvent} \cup EventIds :
           check_conflicts(user_id, start_date, end_date, event_id)

Deliver ==
    /\ resp # NoResp
    /\ resp' = NoResp
    /\ UNCHANGED <<events, next_id, shifts, templates, txns, template_days, other_apps>>

\* The shift catalogue next to template application and event deletion.
ShiftIds == {"morning", "night", "nosuch"}      \* "nosuch": no such shift

DeleteShift ==
    /\ resp = NoResp
    /\ \E actor \in AdminCallers, shift_id \in ShiftIds :
           shift_detail_delete(actor, shift_id)

NextShifts ==
    \/ ApplyTemplate
    \/ DeleteEvent
    \/ DeleteShift
    \/ Deliver

SpecShifts == Init /\ [][NextShifts]_vars

\* The two pure functions taken alone, over every input of the bounded sets.
TimesOfDay == {0, 1, 360, 480, 481, 960, 1020, 1320, 1439}   \* minutes of the day

DurationHours ==
    \E all_day \in BOOLEAN, start_date \in RequestDates, end_date \in RequestDates,
       start_time \in TimesOfDay, end_time \in TimesOfDay :
        /\ resp' = [op |-> "duration_hours", all_day |-> all_day,
                    start_date |-> start_date, start_time |-> start_time,
                    end_date |-> end_date, end_time |-> end_time,
                    result |-> duration_hours(all_day, start_date, start_time,
                                              end_date, end_time)]
        /\ UNCHANGED <<events, next_id, shifts, templates, txns, template_days, other_apps>>

CalculateEventDate ==
    \E day_of_week \in 0 .. 6, start_date \in 0 .. MaxAnchor :
        /\ resp' = [op |-> "calculate_event_date", day_of_week |-> day_of_week,
                    start_date |-> start_date,
                    result |-> calculate_event_date(day_of_week, start_date)]
        /\ UNCHANGED <<events, next_id, shifts, templates, txns, template_days, other_apps>>

NextPure ==
    \/ DurationHours
    \/ CalculateEventDate

SpecPure == Init /\ [][NextPure]_vars

\* ------------------------------------------------------------ template days
\* Template days are added next to template applications.
AddTemplateDay ==
    /\ resp = NoResp
    /\ Cardinality(template_days) < MaxTemplateDays
    /\ \E template_id \in TemplateIds, day_of_week \in 0 .. 6,
          shift \in {"morning", "night", NoShift} :
           TemplateDay_create(template_id, day_of_week, shift)

NextTemplates ==
    \/ AddTemplateDay
    \/ ApplyTemplate
    \/ Deliver

SpecTemplates == Init /\ [][NextTemplates]_vars

\* ------------------------------------------------------------- availability
\* The availability query next to the two bulk write paths.
CheckAvailability ==
    /\ resp = NoResp
    /\ \E user_ids \in UserIdLists,
          start_date \in RequestDates, end_date \in RequestDates :
           check_availability(user_ids, start_date, end_date)

NextAvailability ==
    \/ CheckAvailability
    \/ BulkCreate
    \/ ApplyTemplate
    \/ Deliver

SpecAvailability == Init /\ [][NextAvailability]_vars

\* ----------------------------------------------------------------- patients
PatientIds == 1 .. MaxPatients + 1      \* the last one: no such patient

CreatePatient ==
    /\ next_patient_id <= MaxPatients
    /\ \E actor \in Actors, data_doctor \in {Absent, NoDoctor, "ann", "bob", "admin"},
          valid \in BOOLEAN :
           create_patient(actor, data_doctor, valid)

DeletePatient ==
    \E actor \in Actors, patient_id \in PatientIds : delete_patient(actor, patient_id)

RestorePatient ==
    \E actor \in Actors, patient_id \in PatientIds : restore_patient(actor, patient_id)

PermanentDeletePatient ==
    \E actor \in Actors, patient_id \in PatientIds :
        permanent_delete_patient(actor, patient_id)

NextPatients ==
    \/ CreatePatient
    \/ DeletePatient
    \/ RestorePatient
    \/ PermanentDeletePatient

SpecPatients == Init /\ [][NextPatients]_vars

\* ---------------------------------------------------------------- hospitals
HospitalIds == 1 .. MaxHospitals + 2    \* the last one: no such hospital
HospitalUsers == {"ann", "bob"}

AddHospital ==
    /\ next_hospital_id <= MaxHospitals + 1
    /\ \E actor \in HospitalUsers, is_primary \in BOOLEAN, valid \in BOOLEAN :
           user_hospitals_post(actor, is_primary, valid)

UpdateHospital ==
    \E actor \in HospitalUsers, method \in {"PUT", "PATCH"},
       hospital_id \in HospitalIds, is_primary \in {"true", "false", Absent} :
        user_hospital_detail_update(actor, method, hospital_id, is_primary)

DeleteHospital ==
    \E actor \in HospitalUsers, hospital_id \in HospitalIds :
        user_hospital_detail_delete(actor, hospital_id)

SetPrimaryHospital ==
    \E actor \in HospitalUsers, hospital_id \in HospitalIds :
        set_primary_hospital(actor, hospital_id)

NextHospitals ==
    \/ AddHospital
    \/ UpdateHospital
    \/ DeleteHospital
    \/ SetPrimaryHospital

SpecHospitals == Init /\ [][NextHospitals]_vars

\* ------------------------------------------------------------------ uploads
UploadIds == 1 .. MaxUploads + 2        \* the last one: no such upload

StartChunkedUpload ==
    /\ next_upload_id <= MaxUploads + 1
    /\ \E actor \in Actors, doctor \in {NoPatient, NoDoctor, "ann"}, valid \in BOOLEAN :
           start_chunked_upload(actor, doctor, valid)

UploadChunk ==
    \E actor \in Actors, upload_id \in UploadIds,
       chunk_index \in 0 .. MaxChunkIndex, total_chunks \in 1 .. MaxTotalChunks :
        upload_chunk(actor, upload_id, chunk_index, total_chunks)

RetryUpload ==
    \E actor \in Actors, upload_id \in UploadIds : retry_upload(actor, upload_id)

NextUploads ==
    \/ StartChunkedUpload
    \/ UploadChunk
    \/ RetryUpload

SpecUploads == Init /\ [][NextUploads]_vars

\* ------------------------------------------------------- duration of a shift
\* timedelta.seconds of the difference of two wall-clock datetimes, in seconds
\* of the day (0 .. 86399).
timedelta_seconds(seconds) == seconds % (24 * 60 * 60)

\* round(seconds / 3600, 2) in hundredths of an hour; the second counts met
\* here are never half-way between two hundredths.
round2_seconds(seconds) == (seconds + 18) \div 36

\* Shift.clean: the duration it computes, in seconds, for end_time <= start_time
\* (one day is added to the end); it raises when that exceeds 24 hours.
Shift_clean_duration(start_time, end_time) ==
    timedelta_seconds((end_time + 24 * 60 - start_time) * 60)

Shift_clean(start_time, end_time) ==
    IF end_time <= start_time
    THEN ~(Shift_clean_duration(start_time, end_time) > 24 * 60 * 60)
    ELSE TRUE

\* ShiftSerializer.get_duration_hours: for an overnight shift the end is
\* replaced by 23:59:59 of the same day.
get_duration_hours(start_time, end_time) ==
    LET start == start_time * 60
        end == IF end_time < start_time THEN 23 * 3600 + 59 * 60 + 59
               ELSE end_time * 60
    IN round2_seconds(timedelta_seconds(end - start))

\* ShiftSerializer.validate: end_dt.replace(day=end_dt.day + 1) raises
\* ValueError when today is the last day of its month.
ShiftSerializer_validate(start_time, end_time, month_end) ==
    IF end_time < start_time
    THEN IF month_end THEN "error"
         ELSE IF timedelta_seconds((end_time + 24 * 60 - start_time) * 60) > 24 * 60 * 60
              THEN "invalid" ELSE "ok"
    ELSE IF end_time = start_time THEN "invalid"
    ELSE "ok"

ShiftDuration ==
    \E start_time \in TimesOfDay, end_time \in TimesOfDay, month_end \in BOOLEAN :
        /\ resp' = [op |-> "shift_duration", start_time |-> start_time,
                    end_time |-> end_time, month_end |-> month_end,
                    clean |-> Shift_clean(start_time, end_time),
                    clean_duration |-> Shift_clean_duration(start_time, end_time),
                    validate |-> ShiftSerializer_validate(start_time, end_time, month_end),
                    duration_hours |-> get_duration_hours(start_time, end_time)]
        /\ UNCHANGED <<events, next_id, shifts, templates, txns, template_days, other_apps>>

NextShiftDuration == ShiftDuration

SpecShiftDuration == Init /\ [][NextShiftDuration]_vars

\* ------------------------------------------- concurrent template application
\* Two workers each serve one apply_schedule_template request at the same time.
\* Inside transaction.atomic() every ORM call is one statement; under the
\* database's read-committed isolation a statement sees the committed rows and
\* the rows its own transaction has written.  txns[w].writes are the rows
\* worker w has inserted and not yet committed.

\* The first template day at or after k that has a shift (7: none).
next_shift_day(template, k) ==
    LET later == {j \in k .. 6 : j \in DOMAIN template /\ template[j] # NoShift}
    IN IF later = {} THEN 7 ELSE CHOOSE j \in later : \A x \in later : j <= x

\* After the template day k of the current user: the next day with a shift,
\* or the next user.
next_pair(txn, k) ==
    LET j == next_shift_day(templates[txn.template_id], k)
    IN IF j = 7 THEN [txn EXCEPT !.pc = "user", !.i = @ + 1, !.k = 0]
       ELSE [txn EXCEPT !.pc = "check", !.k = j]

finished(txn, code) ==
    [txn EXCEPT !.pc = "done", !.code = code,
                !.writes = IF code = 200 THEN @ ELSE {},
                !.created_events = IF code = 200 THEN @ ELSE <<>>,
                !.skipped_users = IF code = 200 THEN @ ELSE <<>>]

\* The request arrives: IsAdminUser, validate_apply_template_request, and
\* get_object_or_404(ScheduleTemplate); then the transaction begins.
begin_apply(w, actor, template_id, start_date, user_ids) ==
    LET txn == [pc |-> "user", code |-> 0, actor |-> actor,
                template_id |-> template_id, start_date |-> start_date,
                user_ids |-> user_ids, i |-> 1, k |-> 0, writes |-> {},
                created_events |-> <<>>, skipped_users |-> <<>>]
        code == IF ~is_staff(actor) THEN 403
                ELSE IF Len(user_ids) = 0 THEN 400
                ELSE IF template_id \notin DOMAIN templates THEN 404
                ELSE 0
    IN /\ txns[w].pc = "idle"
       /\ txns' = [txns EXCEPT ![w] = IF code = 0 THEN txn ELSE finished(txn, code)]
       /\ UNCHANGED <<events, next_id, shifts, templates, resp, template_days, other_apps>>

\* for user_id in user_ids: get_object_or_404(User); the end of the list ends
\* the with-block.
get_user(w) ==
    LET txn == txns[w]
    IN /\ txn.pc = "user"
       /\ txns' = [txns EXCEPT ![w] =
              IF txn.i > Len(txn.user_ids) THEN [txn EXCEPT !.pc = "commit"]
              ELSE IF txn.user_ids[txn.i] \notin Users THEN finished(txn, 404)
              ELSE IF next_shift_day(templates[txn.template_id], 0) = 7
              THEN [txn EXCEPT !.i = @ + 1]
              ELSE [txn EXCEPT !.pc = "check",
                               !.k = next_shift_day(templates[txn.template_id], 0)]]
       /\ UNCHANGED <<events, next_id, shifts, templates, resp, template_days, other_apps>>

\* check_schedule_conflicts(user, event_date), one SELECT.
check_pair(w) ==
    LET txn == txns[w]
        user == txn.user_ids[txn.i]
        event_date == calculate_event_date(txn.k, txn.start_date)
    IN /\ txn.pc = "check"
       /\ txns' = [txns EXCEPT ![w] =
              IF check_schedule_conflicts(events \cup txn.writes, user, event_date)
              THEN next_pair([txn EXCEPT !.skipped_users =
                                 Append(@, [user_id |-> user, date |-> event_date,
                                            reason |-> "Schedule conflict"])],
                             txn.k + 1)
              ELSE [txn EXCEPT !.pc = "create"]]
       /\ UNCHANGED <<events, next_id, shifts, templates, resp, template_days, other_apps>>

\* create_schedule_event(template_day, user, event_date, ...), one INSERT.
create_pair(w) ==
    LET txn == txns[w]
        user == txn.user_ids[txn.i]
        event_date == calculate_event_date(txn.k, txn.start_date)
        out == create_schedule_event(templates[txn.template_id][txn.k], user, event_date,
                   txn.actor,
                   [events |-> txn.writes, next_id |-> next_id,
                    created_events |-> txn.created_events])
    IN /\ txn.pc = "create"
       /\ txns' = [txns EXCEPT ![w] =
              next_pair([txn EXCEPT !.writes = out.events,
                                    !.created_events = out.created_events],
                        txn.k + 1)]
       /\ next_id' = out.next_id
       /\ UNCHANGED <<events, shifts, templates, resp, template_days, other_apps>>

\* The with-block ends: the transaction commits.  No constraint of the schema
\* looks at the rows of other transactions.
commit_rows_serializable(store, txn) ==
    IF \E row \in txn.writes :
          overlap_filter(store, row.user, row.start_date, row.end_date) # {}
    THEN store ELSE store \cup txn.writes

commit_rows(store, txn) == store \cup txn.writes

commit_apply(w) ==
    LET txn == txns[w]
    IN /\ txn.pc = "commit"
       /\ events' = commit_rows(events, txn)
       /\ txns' = [txns EXCEPT ![w] = finished(txn, 200)]
       /\ UNCHANGED <<next_id, shifts, templates, resp, template_days, other_apps>>

BeginApply ==
    \E w \in Workers, actor \in AdminCallers, template_id \in TemplateIds,
       start_date \in RequestDates, user_ids \in UserIdLists :
        begin_apply(w, actor, template_id, start_date, user_ids)

GetUser == \E w \in Workers : get_user(w)

CheckPair == \E w \in Workers : check_pair(w)

CreatePair == \E w \in Workers : create_pair(w)

CommitApply == \E w \in Workers : commit_apply(w)

NextRace ==
    \/ BeginApply
    \/ GetUser
    \/ CheckPair
    \/ CreatePair
    \/ CommitApply

SpecRace == Init /\ [][NextRace]_vars

Next ==
    \/ ApplyTemplate
    \/ CreateEvent
    \/ UpdateEvent
    \/ DeleteEvent
    \/ BulkCreate
    \/ CheckConflicts
    \/ Deliver

Spec == Init /\ [][Next]_vars

\* =================================================================== claims
\* Helpers of the properties below.
Active(ev) == ev.status = "scheduled" \/ ev.status = "confirmed"

RangesOverlap(s1, e1, s2, e2) == ~(e1 < s2 \/ e2 < s1)

Occurrences(seq, x) == Cardinality({i \in 1 .. Len(seq) : seq[i] = x})

\* The day in start_date .. start_date + 6 that falls on day_of_week.
OccurrenceOnOrAfter(day_of_week, start_date) ==
    CHOOSE d \in start_date .. (start_date + 6) : weekday(d) = day_of_week

\* C1: in every reachable state, any two distinct active (scheduled or
\* confirmed) events of the same user have disjoint inclusive date ranges.
C1_NoActiveOverlap ==
    \A a \in events, b \in events :
        (a.id # b.id /\ a.user = b.user /\ Active(a) /\ Active(b))
            => (a.end_date < b.start_date \/ b.end_date < a.start_date)

\* C2: for every user, closed range [s, e] and optional excluded event id,
\* the conflict query reports a conflict iff some event of the user other than
\* the excluded one is scheduled or confirmed with start_date <= e and
\* end_date >= s; the conflict list is exactly those events and
\* conflict_count is their number.
C2_ConflictQueryExact ==
    (resp.op = "check_conflicts" /\ resp.code = 200
        /\ resp.req.start_date <= resp.req.end_date)
    => LET matching ==
               {ev \in events :
                   /\ ev.user = resp.req.user_id
                   /\ (resp.req.event_id = NoEvent \/ ev.id # resp.req.event_id)
                   /\ Active(ev)
                   /\ ev.start_date <= resp.req.end_date
                   /\ ev.end_date >= resp.req.start_date}
       IN /\ resp.has_conflicts <=> (matching # {})
          /\ resp.conflicts = {ev.id : ev \in matching}
          /\ resp.conflict_count = Cardinality(matching)

\* C2 witness: a query that excludes one overlapping active event of the user
\* and reports another one.
C2_Witness ==
    /\ resp.op = "check_conflicts"
    /\ resp.has_conflicts
    /\ resp.req.event_id \notin resp.conflicts
    /\ \E ev \in events :
           /\ ev.id = resp.req.event_id
           /\ ev.user = resp.req.user_id
           /\ Active(ev)
           /\ RangesOverlap(ev.start_date, ev.end_date,
                            resp.req.start_date, resp.req.end_date)

\* No active event of user overlaps [s, e] in store.
NothingActiveOverlaps(store, user, s, e) ==
    \A ev \in store :
        (ev.user = user /\ RangesOverlap(ev.start_date, ev.end_date, s, e))
            => ~Active(ev)

\* C3: a cancelled or completed event never blocks a booking: when every event
\* of a user that overlaps a range is cancelled or completed, template
\* application and bulk creation over that range create the user's event
\* instead of skipping the user, and the conflict query reports no conflict.
C3_InactiveNeverBlocks ==
    [][ /\ (resp'.op = "check_conflicts" /\ resp'.code = 200
              /\ NothingActiveOverlaps(events, resp'.req.user_id,
                                       resp'.req.start_date, resp'.req.end_date))
            => (~resp'.has_conflicts /\ resp'.conflict_count = 0)
        /\ (resp'.op = "apply_template" /\ resp'.code = 200)
            => \A i \in 1 .. Len(resp'.req.user_ids), k \in 0 .. 6 :
                 LET user == resp'.req.user_ids[i]
                     template == templates[resp'.req.template_id]
                     d == OccurrenceOnOrAfter(k, resp'.req.start_date)
                 IN (k \in DOMAIN template /\ template[k] # NoShift
                        /\ NothingActiveOverlaps(events, user, d, d))
                    => \E ev \in events' \ events :
                           ev.user = user /\ ev.start_date = d /\ ev.end_date = d
        /\ (resp'.op = "bulk_create" /\ is_staff(resp'.actor)
              /\ resp'.req.start_date <= resp'.req.end_date
              /\ \A i \in 1 .. Len(resp'.req.user_ids) : resp'.req.user_ids[i] \in Users)
            => \A i \in 1 .. Len(resp'.req.user_ids) :
                 LET user == resp'.req.user_ids[i]
                 IN NothingActiveOverlaps(events, user, resp'.req.start_date,
                                          resp'.req.end_date)
                    => \E ev \in events' \ events :
                           /\ ev.user = user
                           /\ ev.start_date = resp'.req.start_date
                           /\ ev.end_date = resp'.req.end_date
      ]_vars

\* The fields an update would store for event ev under patch p.
PatchedUser(ev, p) == IF p.user = Absent THEN ev.user ELSE p.user
PatchedStart(ev, p) == IF p.start_date = AbsentDate THEN ev.start_date ELSE p.start_date
PatchedEnd(ev, p) == IF p.end_date = AbsentDate THEN ev.end_date ELSE p.end_date

IsIdentityPatch(ev, p) ==
    /\ p.user = ev.user
    /\ p.start_date = ev.start_date
    /\ p.end_date = ev.end_date
    /\ p.status = ev.status

\* C4: an update whose patch equals the current state of an active event never
\* fails with a conflict error (the event is excluded from its own conflict
\* check); made by the owner or an administrator it succeeds and leaves the
\* table unchanged.
C4_IdentityUpdateSucceeds ==
    [][ \A ev \in events :
          (resp'.op = "update_event" /\ resp'.event_id = ev.id /\ Active(ev)
              /\ IsIdentityPatch(ev, resp'.patch))
          => /\ resp'.err # "conflict"
             /\ (ev.user = resp'.actor \/ is_staff(resp'.actor))
                  => (resp'.code = 200 /\ events' = events)
      ]_vars

\* C4 witness: an identity update of an active event has returned 200.
C4_Witness ==
    /\ resp.op = "update_event"
    /\ resp.code = 200
    /\ \E ev \in events :
           ev.id = resp.event_id /\ Active(ev) /\ IsIdentityPatch(ev, resp.patch)

\* C5: an update that changes user, start_date or end_date re-runs the
\* conflict check without the event itself; when another active event of the
\* target user overlaps the new range the update fails (with a conflict error
\* when the new range is a valid one) and the table is left exactly as it was.
C5_ConflictingUpdateRejected ==
    [][ \A ev \in events :
          LET p == resp'.patch
              user == PatchedUser(ev, p)
              s == PatchedStart(ev, p)
              e == PatchedEnd(ev, p)
          IN (/\ resp'.op = "update_event"
              /\ resp'.event_id = ev.id
              /\ (ev.user = resp'.actor \/ is_staff(resp'.actor))
              /\ (user # ev.user \/ s # ev.start_date \/ e # ev.end_date)
              /\ \E other \in events :
                     /\ other.id # ev.id
                     /\ other.user = user
                     /\ Active(other)
                     /\ RangesOverlap(other.start_date, other.end_date, s, e))
             => /\ resp'.code = 400
                /\ events' = events
                /\ s <= e => resp'.err = "conflict"
      ]_vars

\* C5 witness: an update has been refused with a conflict.
C5_Witness ==
    /\ resp.op = "update_event"
    /\ resp.code = 400
    /\ resp.err = "conflict"

C7_ForeignMutationForbidden ==
    [][ \A ev \in events :
          (/\ resp'.op \in {"update_event", "delete_event"}
           /\ resp'.event_id = ev.id
           /\ ev.user # resp'.actor
           /\ ~is_staff(resp'.actor))
          => (resp'.code = 403 /\ events' = events)
      ]_vars

\* C7 witness: a delete of someone else's event by a non-staff caller has
\* been refused, and the event is still there.
C7_Witness ==
    /\ resp.op = "delete_event"
    /\ resp.code = 403
    /\ \E ev \in events : ev.id = resp.event_id /\ ev.user # resp.actor

\* C8: a successful delete removes exactly the targeted event; every other
\* event, every shift and every template is unchanged.
C8_DeleteRemovesOnlyTarget ==
    [][ (resp'.op = "delete_event" /\ resp'.code = 200)
        => /\ \E ev \in events : ev.id = resp'.event_id /\ events' = events \ {ev}
           /\ shifts' = shifts
           /\ templates' = templates
      ]_vars

\* C8 witness: an event has been deleted while another event is stored.
C8_Witness ==
    /\ resp.op = "delete_event"
    /\ resp.code = 200
    /\ events # {}
    /\ \A ev \in events : ev.id # resp.event_id

\* C9: in a template application, for every user entry and template day with a
\* shift whose event date is covered by an active event of that user, no event
\* is created and one skip entry with that user, that date and the reason
\* "Schedule conflict" is recorded per entry of the user.
C9_ConflictingPairSkipped ==
    [][ (resp'.op = "apply_template" /\ resp'.code = 200)
        => \A user \in Users, k \in 0 .. 6 :
             LET template == templates[resp'.req.template_id]
                 d == OccurrenceOnOrAfter(k, resp'.req.start_date)
                 skips == {i \in 1 .. Len(resp'.skipped_users) :
                             resp'.skipped_users[i] =
                                 [user_id |-> user, date |-> d,
                                  reason |-> "Schedule conflict"]}
             IN (/\ k \in DOMAIN template
                 /\ template[k] # NoShift
                 /\ Occurrences(resp'.req.user_ids, user) > 0
                 /\ \E ev \in events :
                        /\ ev.user = user /\ Active(ev)
                        /\ ev.start_date <= d /\ d <= ev.end_date)
                => /\ ~\E ev \in events' \ events : ev.user = user /\ ev.start_date = d
                   /\ Cardinality(skips) = Occurrences(resp'.req.user_ids, user)
      ]_vars

\* C9 witness: an application has created nothing and recorded one skip.
C9_Witness ==
    /\ resp.op = "apply_template"
    /\ resp.code = 200
    /\ resp.created_events = <<>>
    /\ Len(resp.skipped_users) = 1
    /\ resp.skipped_users[1].reason = "Schedule conflict"

\* C10: in a template application, for every listed user and template day
\* with a shift whose event date is free for that user, exactly one event is
\* created for the user, with start_date = end_date = the event date,
\* event_type "shift", status "scheduled", the shift's times and the shift
\* referenced; a Monday template day with a Wednesday anchor gives the
\* following Monday (anchor + 5).
C10_FreePairCreated ==
    [][ (resp'.op = "apply_template" /\ resp'.code = 200)
        => \A user \in Users, k \in 0 .. 6 :
             LET template == templates[resp'.req.template_id]
                 d == OccurrenceOnOrAfter(k, resp'.req.start_date)
                 made == {ev \in events' \ events : ev.user = user /\ ev.start_date = d}
             IN (/\ k \in DOMAIN template
                 /\ template[k] # NoShift
                 /\ Occurrences(resp'.req.user_ids, user) > 0
                 /\ ~\E ev \in events :
                        /\ ev.user = user /\ Active(ev)
                        /\ ev.start_date <= d /\ d <= ev.end_date)
                => /\ Cardinality(made) = 1
                   /\ \A ev \in made :
                        /\ ev.end_date = d
                        /\ ev.event_type = "shift"
                        /\ ev.status = "scheduled"
                        /\ ev.shift = template[k]
                        /\ ev.start_time = shifts[template[k]].start_time
                        /\ ev.end_time = shifts[template[k]].end_time
                        /\ Occurrences(resp'.created_events, ev.id) = 1
                        /\ (k = 0 /\ weekday(resp'.req.start_date) = 2)
                             => ev.start_date = resp'.req.start_date + 5
      ]_vars

\* C10 witness: a Monday template day applied from a Wednesday anchor has
\* created the event of the following Monday.
C10_Witness ==
    /\ resp.op = "apply_template"
    /\ resp.code = 200
    /\ weekday(resp.req.start_date) = 2
    /\ \E ev \in events :
           /\ Occurrences(resp.created_events, ev.id) = 1
           /\ weekday(ev.start_date) = 0
           /\ ev.start_date = resp.req.start_date + 5
           /\ ev.event_type = "shift"
           /\ ev.start_time = 8 /\ ev.end_time = 16

\* Some active event of user overlaps [s, e] in store.
HasActiveOverlap(store, user, s, e) == ~NothingActiveOverlaps(store, user, s, e)

ListedUsers(user_ids) == {user_ids[i] : i \in 1 .. Len(user_ids)}

\* A well-formed bulk request of an administrator: a non-empty list of
\* existing users and a valid range.
WellFormedBulk(r) ==
    /\ r.op = "bulk_create"
    /\ is_staff(r.actor)
    /\ Len(r.req.user_ids) > 0
    /\ ListedUsers(r.req.user_ids) \subseteq Users
    /\ r.req.start_date <= r.req.end_date

\* A well-formed template application of an administrator.
WellFormedApply(r) ==
    /\ r.op = "apply_template"
    /\ is_staff(r.actor)
    /\ Len(r.req.user_ids) > 0
    /\ ListedUsers(r.req.user_ids) \subseteq Users
    /\ r.req.template_id \in DOMAIN templates

\* C11: a bulk creation over [start_date, end_date] succeeds; each listed user
\* with an active event overlapping the span is skipped and reported once per
\* entry, with no event created for them, and each other listed user gets
\* exactly one new event spanning the whole range with status scheduled, which
\* is persisted and listed in created_events.
C11_BulkCreatesOrSkips ==
    [][ WellFormedBulk(resp')
        => /\ resp'.code = 201
           /\ \A user \in ListedUsers(resp'.req.user_ids) :
                LET made == {ev \in events' \ events : ev.user = user}
                    skips == {i \in 1 .. Len(resp'.skipped_users) :
                                 resp'.skipped_users[i].user_id = user}
                IN IF HasActiveOverlap(events, user, resp'.req.start_date,
                                       resp'.req.end_date)
                   THEN /\ made = {}
                        /\ Cardinality(skips) = Occurrences(resp'.req.user_ids, user)
                   ELSE /\ Cardinality(made) = 1
                        /\ \A ev \in made :
                             /\ ev.start_date = resp'.req.start_date
                             /\ ev.end_date = resp'.req.end_date
                             /\ ev.status = "scheduled"
                             /\ Occurrences(resp'.created_events, ev.id) = 1
      ]_vars

\* C12: a template application whose template or one of whose users does not
\* exist, and a bulk creation one of whose users does not exist, fails and
\* persists nothing: the table and the key counter are as before the request,
\* whatever users precede the missing one in the list.
C12_MissingReferenceAborts ==
    [][ (\/ /\ resp'.op = "apply_template"
            /\ \/ resp'.req.template_id \notin DOMAIN templates
               \/ ~(ListedUsers(resp'.req.user_ids) \subseteq Users)
         \/ /\ resp'.op = "bulk_create"
            /\ ~(ListedUsers(resp'.req.user_ids) \subseteq Users))
        => /\ resp'.code >= 400
           /\ events' = events
           /\ next_id' = next_id
           /\ resp'.created_events = <<>>
      ]_vars

\* C12 witness: an application for [u, missing user] has failed with 404
\* although u, listed first, was free on the date of a template day with a shift.
C12_Witness ==
    /\ resp.op = "apply_template"
    /\ resp.code = 404
    /\ resp.req.template_id \in DOMAIN templates
    /\ Len(resp.req.user_ids) = 2
    /\ resp.req.user_ids[1] \in Users
    /\ resp.req.user_ids[2] \notin Users
    /\ \E k \in DOMAIN templates[resp.req.template_id] :
           /\ templates[resp.req.template_id][k] # NoShift
           /\ LET d == OccurrenceOnOrAfter(k, resp.req.start_date)
              IN NothingActiveOverlaps(events, resp.req.user_ids[1], d, d)

\* C13: a conflict of one pair does not abort the batch: a well-formed
\* template application or bulk creation in which some listed user conflicts
\* still succeeds, and every listed (user, template day) pair, or listed user
\* of a bulk request, that has no conflict gets its event.
C13_ConflictDoesNotAbort ==
    [][ /\ (/\ WellFormedApply(resp')
            /\ \E user \in ListedUsers(resp'.req.user_ids), k \in 0 .. 6 :
                 LET template == templates[resp'.req.template_id]
                     d == OccurrenceOnOrAfter(k, resp'.req.start_date)
                 IN /\ k \in DOMAIN template
                    /\ template[k] # NoShift
                    /\ HasActiveOverlap(events, user, d, d))
            => /\ resp'.code = 200
               /\ \A user \in ListedUsers(resp'.req.user_ids), k \in 0 .. 6 :
                    LET template == templates[resp'.req.template_id]
                        d == OccurrenceOnOrAfter(k, resp'.req.start_date)
                    IN (/\ k \in DOMAIN template
                        /\ template[k] # NoShift
                        /\ NothingActiveOverlaps(events, user, d, d))
                       => \E ev \in events' \ events :
                              ev.user = user /\ ev.start_date = d /\ ev.end_date = d
        /\ (/\ WellFormedBulk(resp')
            /\ \E user \in ListedUsers(resp'.req.user_ids) :
                 HasActiveOverlap(events, user, resp'.req.start_date, resp'.req.end_date))
            => /\ resp'.code = 201
               /\ \A user \in ListedUsers(resp'.req.user_ids) :
                    NothingActiveOverlaps(events, user, resp'.req.start_date,
                                          resp'.req.end_date)
                    => \E ev \in events' \ events :
                           /\ ev.user = user
                           /\ ev.start_date = resp'.req.start_date
                           /\ ev.end_date = resp'.req.end_date
      ]_vars

\* C14: deleting a shift that some event references fails and leaves the
\* shift, every event and every template as they were; deleting a shift that no
\* event references, by an administrator, succeeds and removes that shift and
\* no other, leaving every event as it was.
C14_ShiftDeleteGuarded ==
    [][ (resp'.op = "delete_shift" /\ resp'.shift_id \in DOMAIN shifts)
        => IF \E ev \in events : ev.shift = resp'.shift_id
           THEN /\ resp'.code >= 400
                /\ shifts' = shifts
                /\ events' = events
                /\ templates' = templates
           ELSE is_staff(resp'.actor)
                => /\ resp'.code = 200
                   /\ DOMAIN shifts' = DOMAIN shifts \ {resp'.shift_id}
                   /\ \A s \in DOMAIN shifts' : shifts'[s] = shifts[s]
                   /\ events' = events
      ]_vars

\* C14 witness: an administrator's delete of a shift in use has been refused
\* after another, unused shift was deleted.
C14_Witness ==
    /\ resp.op = "delete_shift"
    /\ is_staff(resp.actor)
    /\ resp.code = 400
    /\ \E ev \in events : ev.shift = resp.shift_id
    /\ resp.shift_id \in DOMAIN shifts
    /\ DOMAIN shifts # DOMAIN InitShifts

\* C15: for a non-all-day event with start_date = end_date, duration_hours is
\* end_time - start_time in hours when end_time >= start_time and
\* end_time + 24h - start_time when end_time < start_time, to the nearest
\* hundredth of an hour (exact for a multiple of three minutes); 08:00-16:00
\* and 22:00-06:00 both give 8.0.
C15_SameDayDuration ==
    (resp.op = "duration_hours" /\ ~resp.all_day /\ resp.start_date = resp.end_date)
    => LET minutes == IF resp.end_time >= resp.start_time
                      THEN resp.end_time - resp.start_time
                      ELSE resp.end_time + 24 * 60 - resp.start_time
       IN /\ 60 * resp.result - 100 * minutes < 30
          /\ 100 * minutes - 60 * resp.result < 30
          /\ (minutes % 3 = 0) => (60 * resp.result = 100 * minutes)
          /\ (resp.start_time = 480 /\ resp.end_time = 960) => resp.result = 800
          /\ (resp.start_time = 1320 /\ resp.end_time = 360) => resp.result = 800

\* C15 witness: the duration of a same-day 22:00-06:00 event has been computed.
C15_Witness ==
    /\ resp.op = "duration_hours"
    /\ ~resp.all_day
    /\ resp.start_date = resp.end_date
    /\ resp.start_time = 1320
    /\ resp.end_time = 360
    /\ resp.result = 800

\* C18: for every anchor and every day_of_week in 0..6, calculate_event_date
\* returns start_date + ((day_of_week - weekday(start_date)) mod 7): a date d
\* with start_date <= d <= start_date + 6 that falls on day_of_week, and the
\* anchor itself when the anchor falls on that weekday.
C18_NextOccurrence ==
    resp.op = "calculate_event_date"
    => LET d == resp.result
           offset == CHOOSE n \in 0 .. 6 :
                        (weekday(resp.start_date) + n) % 7 = resp.day_of_week
       IN /\ d = resp.start_date + offset
          /\ resp.start_date <= d
          /\ d <= resp.start_date + 6
          /\ weekday(d) = resp.day_of_week
          /\ (weekday(resp.start_date) = resp.day_of_week) => (d = resp.start_date)

\* C18 witness: the date has been computed for an anchor that falls on the
\* requested weekday, in the second week of the anchors.
C18_Witness ==
    /\ resp.op = "calculate_event_date"
    /\ weekday(resp.start_date) = resp.day_of_week
    /\ resp.start_date >= 7
    /\ resp.result = resp.start_date

\* C20: for an all-day event duration_hours is 8.0, whatever its dates and
\* times.
C20_AllDayIsEightHours ==
    (resp.op = "duration_hours" /\ resp.all_day) => resp.result = 800

\* C20 witness: the duration of an all-day event over more than one day, with
\* times 16 hours apart, has been computed as 8.0.
C20_Witness ==
    /\ resp.op = "duration_hours"
    /\ resp.all_day
    /\ resp.end_date > resp.start_date
    /\ resp.start_time = 0
    /\ resp.end_time = 960
    /\ resp.result = 800

\* The hours of the day an event with the given times occupies (an end at or
\* before the start runs past midnight).
HoursOf(start_time, end_time) ==
    IF start_time < end_time THEN start_time .. (end_time - 1)
    ELSE (start_time .. 23) \cup (0 .. (end_time - 1))

\* C16: conflicts are decided on dates alone.  Whatever the times of day of an
\* active event of a user: the conflict query over a range that shares a day
\* with it reports it; a template application skips, with a skip entry, every
\* template day of that user whose date the event covers; and a bulk creation
\* over a range that shares a day with it creates no event for that user and,
\* when it succeeds, lists the user as skipped.
C16_DateGranularityOnly ==
    [][ /\ (resp'.op = "check_conflicts" /\ resp'.code = 200)
            => \A ev \in events :
                 (/\ ev.user = resp'.req.user_id
                  /\ Active(ev)
                  /\ ev.id # resp'.req.event_id
                  /\ ev.start_date <= resp'.req.end_date
                  /\ ev.end_date >= resp'.req.start_date)
                 => (resp'.has_conflicts /\ ev.id \in resp'.conflicts)
        /\ (resp'.op = "apply_template" /\ resp'.code = 200)
            => \A user \in ListedUsers(resp'.req.user_ids), k \in 0 .. 6, ev \in events :
                 LET template == templates[resp'.req.template_id]
                     d == OccurrenceOnOrAfter(k, resp'.req.start_date)
                 IN (/\ k \in DOMAIN template
                     /\ template[k] # NoShift
                     /\ ev.user = user
                     /\ Active(ev)
                     /\ ev.start_date <= d
                     /\ d <= ev.end_date)
                    => /\ \A new \in events' \ events :
                            ~(new.user = user /\ new.start_date = d)
                       /\ \E i \in 1 .. Len(resp'.skipped_users) :
                            /\ resp'.skipped_users[i].user_id = user
                            /\ resp'.skipped_users[i].date = d
        /\ resp'.op = "bulk_create"
            => \A user \in ListedUsers(resp'.req.user_ids), ev \in events :
                 (/\ ev.user = user
                  /\ Active(ev)
                  /\ ev.start_date <= resp'.req.end_date
                  /\ ev.end_date >= resp'.req.start_date)
                 => /\ \A new \in events' \ events : new.user # user
                    /\ resp'.code = 201
                         => \E i \in 1 .. Len(resp'.skipped_users) :
                                resp'.skipped_users[i].user_id = user
      ]_vars

\* C16 witness: a template day has been skipped for a user because of an
\* active event on its date whose hours share nothing with the shift's hours.
C16_Witness ==
    /\ resp.op = "apply_template"
    /\ resp.code = 200
    /\ \E i \in 1 .. Len(resp.skipped_users), k \in 0 .. 6, ev \in events :
         LET template == templates[resp.req.template_id]
             skip == resp.skipped_users[i]
         IN /\ k \in DOMAIN template
            /\ template[k] # NoShift
            /\ skip.date = OccurrenceOnOrAfter(k, resp.req.start_date)
            /\ ev.user = skip.user_id
            /\ Active(ev)
            /\ ev.start_date <= skip.date
            /\ skip.date <= ev.end_date
            /\ Occurrences(resp.created_events, ev.id) = 0
            /\ HoursOf(ev.start_time, ev.end_time)
                 \cap HoursOf(shifts[template[k]].start_time,
                              shifts[template[k]].end_time) = {}

\* The days of a template that carry a shift.
ShiftDays(template) == {k \in DOMAIN template : template[k] # NoShift}

\* C19: a template day without a shift is skipped entirely: a template
\* application creates no event and records no skip entry on its date, for any
\* user, and the created events and skip entries together number one per
\* listed user and template day with a shift.
C19_ShiftlessDayIgnored ==
    [][ (resp'.op = "apply_template" /\ resp'.code = 200)
        => LET template == templates[resp'.req.template_id]
           IN /\ \A k \in DOMAIN template \ ShiftDays(template) :
                   LET d == OccurrenceOnOrAfter(k, resp'.req.start_date)
                   IN /\ \A new \in events' \ events : new.start_date # d
                      /\ \A i \in 1 .. Len(resp'.skipped_users) :
                             resp'.skipped_users[i].date # d
              /\ Len(resp'.created_events) + Len(resp'.skipped_users)
                   = Len(resp'.req.user_ids) * Cardinality(ShiftDays(template))
      ]_vars

\* C19 witness: a template with a shift on one day and none on another has
\* been applied to one user; the one event is created and nothing is skipped.
C19_Witness ==
    /\ resp.op = "apply_template"
    /\ resp.code = 200
    /\ Len(resp.req.user_ids) = 1
    /\ DOMAIN templates[resp.req.template_id]
         # ShiftDays(templates[resp.req.template_id])
    /\ Len(resp.created_events) = 1
    /\ resp.skipped_users = <<>>
    /\ \E ev \in events :
           /\ ev.id = resp.created_events[1]
           /\ weekday(ev.start_date) \in ShiftDays(templates[resp.req.template_id])

\* C17: the check-then-create sequence is not protected against a concurrent
\* request.  A conflict check passes whenever no committed row and no row of
\* its own transaction conflicts, whatever another request has written in the
\* meantime, and a commit always stores every row of the transaction, also
\* over an active event of the same user committed since the check.
C17_CheckThenCreateUnprotected ==
    [][ \A w \in Workers :
          /\ (txns[w].pc = "check" /\ txns'[w] # txns[w])
               => LET user == txns[w].user_ids[txns[w].i]
                      d == OccurrenceOnOrAfter(txns[w].k, txns[w].start_date)
                  IN (txns'[w].pc = "create")
                       <=> NothingActiveOverlaps(events \cup txns[w].writes, user, d, d)
          /\ (txns[w].pc = "commit" /\ txns'[w] # txns[w])
               => /\ txns'[w].pc = "done"
                  /\ txns'[w].code = 200
                  /\ events' = events \cup txns[w].writes
      ]_vars

\* C17 witness: two concurrent applications have both succeeded and the table
\* holds two active events of one user on the same day, one created by each.
C17_Witness ==
    /\ \A w \in Workers : txns[w].pc = "done" /\ txns[w].code = 200
    /\ \E a \in events, b \in events :
           /\ a.id # b.id
           /\ a.user = b.user
           /\ Active(a) /\ Active(b)
           /\ RangesOverlap(a.start_date, a.end_date, b.start_date, b.end_date)
           /\ Occurrences(txns["w1"].created_events, a.id) = 1
           /\ Occurrences(txns["w2"].created_events, b.id) = 1

\* C21: for an overnight shift (end_time < start_time) the duration is
\* end + 24h - start, at most 24 hours, in the model validation and, to the
\* nearest hundredth of an hour, in the serialized duration_hours; 22:00-06:00
\* is reported as 8 hours.
C21_OvernightShiftDuration ==
    (resp.op = "shift_duration" /\ resp.end_time < resp.start_time)
    => LET minutes == resp.end_time + 24 * 60 - resp.start_time
       IN /\ resp.clean
          /\ resp.clean_duration = minutes * 60
          /\ minutes <= 24 * 60
          /\ 60 * resp.duration_hours - 100 * minutes < 30
          /\ 100 * minutes - 60 * resp.duration_hours < 30
          /\ (resp.start_time = 1320 /\ resp.end_time = 360)
               => resp.duration_hours = 800

\* C22: no status transition is enforced: an update by the owner or an
\* administrator that carries only a status is accepted for every current and
\* every new status, and the event then has the new status and is otherwise
\* as before.
C22_AnyStatusTransition ==
    [][ \A ev \in events :
          (/\ resp'.op = "update_event"
           /\ resp'.event_id = ev.id
           /\ (ev.user = resp'.actor \/ is_staff(resp'.actor))
           /\ resp'.patch.status # Absent
           /\ resp'.patch.user = Absent
           /\ resp'.patch.start_date = AbsentDate
           /\ resp'.patch.end_date = AbsentDate)
          => /\ resp'.code = 200
             /\ events' = (events \ {ev}) \cup {[ev EXCEPT !.status = resp'.patch.status]}
      ]_vars

\* C22 witness: a status-only update to "scheduled" has been accepted for an
\* event that shares a day with another active event of its user, so it was
\* cancelled or completed when that other event was booked.
C22_Witness ==
    /\ resp.op = "update_event"
    /\ resp.code = 200
    /\ resp.patch = [NoPatch EXCEPT !.status = "scheduled"]
    /\ \E ev \in events, other \in events :
           /\ ev.id = resp.event_id
           /\ ev.status = "scheduled"
           /\ other.id # ev.id
           /\ other.user = ev.user
           /\ Active(other)
           /\ RangesOverlap(ev.start_date, ev.end_date, other.start_date, other.end_date)

\* C23: in every reachable state a template has at most one TemplateDay per
\* day_of_week, every day_of_week is in 0..6 (so at most 7 days), and the
\* template's days by day_of_week are those rows; one application of a
\* template creates at most 7 events per listed user, no two of them on the
\* same date.
C23_OneDayPerWeekday ==
    [][ /\ \A a \in template_days', b \in template_days' :
              (a.template = b.template /\ a.day_of_week = b.day_of_week) => a = b
        /\ \A r \in template_days' : r.day_of_week \in 0 .. 6
        /\ templates' = template_table(template_days')
        /\ (resp'.op = "apply_template" /\ resp'.code = 200)
            => \A user \in ListedUsers(resp'.req.user_ids) :
                 LET made == {ev \in events' \ events : ev.user = user}
                 IN /\ Cardinality(made) <= 7
                    /\ \A a \in made, b \in made :
                         a.start_date = b.start_date => a = b
      ]_vars

\* C23 witness: a template with a day added to it has been applied and has
\* produced two events, one of them on the added day.
C23_Witness ==
    /\ resp.op = "apply_template"
    /\ resp.code = 200
    /\ Len(resp.created_events) = 2
    /\ Cardinality(template_days) > Cardinality(InitTemplateDays)
    /\ \E ev \in events, r \in template_days \ InitTemplateDays :
           /\ Occurrences(resp.created_events, ev.id) = 1
           /\ r.template = resp.req.template_id
           /\ weekday(ev.start_date) = r.day_of_week

\* C24: a non-staff caller creates events only for themselves: the event a
\* successful create_schedule_event of a non-staff caller stores has the caller
\* as user, whatever user id the request carried, and every created event has
\* the caller as created_by.
C24_NonStaffCreatesForSelf ==
    [][ (resp'.op = "create_event" /\ resp'.code = 201)
        => \E ev \in events' \ events :
             /\ events' = events \cup {ev}
             /\ ev.id = resp'.event_id
             /\ ev.created_by = resp'.actor
             /\ ~is_staff(resp'.actor) => ev.user = resp'.actor
      ]_vars

\* C24 witness: a non-staff caller has sent another user's id and the event
\* was stored for the caller.
C24_Witness ==
    /\ resp.op = "create_event"
    /\ resp.code = 201
    /\ ~is_staff(resp.actor)
    /\ resp.sent_user \in Users
    /\ resp.sent_user # resp.actor
    /\ \E ev \in events :
           ev.id = resp.event_id /\ ev.user = resp.actor /\ ev.created_by = resp.actor

\* C25: for every successful template application, created_count +
\* skipped_count is the number of entries of user_ids times the number of
\* template days with a shift; for every listed user and such day, the created
\* events and the skip entries of that user and date together number the
\* entries of that user; and the events added to the table are exactly the
\* created_count events listed.
C25_CountsAddUp ==
    [][ (resp'.op = "apply_template" /\ resp'.code = 200)
        => LET template == templates[resp'.req.template_id]
               created == resp'.created_events
               skipped == resp'.skipped_users
           IN /\ Len(created) + Len(skipped)
                   = Len(resp'.req.user_ids) * Cardinality(ShiftDays(template))
              /\ \A user \in ListedUsers(resp'.req.user_ids), k \in ShiftDays(template) :
                   LET d == OccurrenceOnOrAfter(k, resp'.req.start_date)
                       made == {i \in 1 .. Len(created) :
                                  \E ev \in events' :
                                      /\ ev.id = created[i]
                                      /\ ev.user = user
                                      /\ ev.start_date = d}
                       skips == {i \in 1 .. Len(skipped) :
                                   skipped[i].user_id = user /\ skipped[i].date = d}
                   IN Cardinality(made) + Cardinality(skips)
                        = Occurrences(resp'.req.user_ids, user)
              /\ events \subseteq events'
              /\ {ev.id : ev \in events' \ events} = {created[i] : i \in 1 .. Len(created)}
              /\ Cardinality(events' \ events) = Len(created)
      ]_vars

\* C25 witness: an application over two entries has created one event and
\* skipped one pair.
C25_Witness ==
    /\ resp.op = "apply_template"
    /\ resp.code = 200
    /\ Len(resp.req.user_ids) = 2
    /\ Len(resp.created_events) = 1
    /\ Len(resp.skipped_users) = 1

\* C26: re-applying a template is idempotent on the table: in the state a
\* successful application leaves, the same application (same template, anchor
\* and users) succeeds again, creates no event and reports every (user entry,
\* template day with a shift) pair as skipped; and within one application a
\* user listed more than once gets at most one event per date.
C26_ReapplyCreatesNothing ==
    [][ (resp'.op = "apply_template" /\ resp'.code = 200)
        => LET again == process_template_application(resp.req.template_id,
                            resp.req.start_date, resp.req.user_ids, resp.actor)'
               template == templates[resp'.req.template_id]
           IN /\ again.code = 200
              /\ again.events = events'
              /\ again.created_events = <<>>
              /\ Len(again.skipped_users)
                   = Len(resp'.req.user_ids) * Cardinality(ShiftDays(template))
              /\ \A a \in events' \ events, b \in events' \ events :
                   (a.user = b.user /\ a.start_date = b.start_date) => a = b
      ]_vars

\* C26 witness: a template has been applied a second time to a user who holds
\* the scheduled shift events of the first application; nothing is created and
\* every template day with a shift is skipped.
C26_Witness ==
    /\ resp.op = "apply_template"
    /\ resp.code = 200
    /\ resp.created_events = <<>>
    /\ Len(resp.skipped_users) > 0
    /\ Len(resp.skipped_users)
         = Len(resp.req.user_ids)
             * Cardinality(ShiftDays(templates[resp.req.template_id]))
    /\ \A i \in 1 .. Len(resp.skipped_users) :
         \E ev \in events :
             /\ ev.user = resp.skipped_users[i].user_id
             /\ ev.start_date = resp.skipped_users[i].date
             /\ ev.end_date = ev.start_date
             /\ ev.event_type = "shift"
             /\ ev.status = "scheduled"
             /\ ev.shift = templates[resp.req.template_id][weekday(ev.start_date)]

\* What bulk_create_schedule_events does for one user over a range in the
\* current table.
BulkForUser(user, start_date, end_date) ==
    bulk_loop(<<user>>, start_date, end_date,
              [events |-> events, next_id |-> next_id, code |-> 201,
               created_events |-> <<>>, skipped_users |-> <<>>], 1)

\* C27: check_availability agrees with the bulk write path: an existing user
\* is reported is_available = TRUE exactly when bulk creation over the same
\* range in the same state creates an event for that user instead of skipping
\* them, conflict_count = 0 exactly when is_available; an unknown user id is
\* reported is_available = FALSE and the request still succeeds.
C27_AvailabilityAgreesWithBulk ==
    (resp.op = "check_availability" /\ resp.code = 200)
    => \A i \in 1 .. Len(resp.results) :
         LET r == resp.results[i]
             out == BulkForUser(r.user_id, resp.req.start_date, resp.req.end_date)
         IN /\ r.user_id = resp.req.user_ids[i]
            /\ (r.conflict_count = 0) <=> (r.is_available \/ r.user_id \notin Users)
            /\ r.user_id \notin Users => ~r.is_available
            /\ r.user_id \in Users =>
                 (r.is_available <=> (out.code = 201 /\ Len(out.created_events) = 1))

\* The part of C27 that the code keeps: is_available is FALSE exactly when
\* bulk creation skips the user.
C27_AvailabilityAgreesWithSkip ==
    (resp.op = "check_availability" /\ resp.code = 200)
    => \A i \in 1 .. Len(resp.results) :
         LET r == resp.results[i]
             out == BulkForUser(r.user_id, resp.req.start_date, resp.req.end_date)
         IN /\ r.user_id = resp.req.user_ids[i]
            /\ (r.conflict_count = 0) <=> (r.is_available \/ r.user_id \notin Users)
            /\ r.user_id \notin Users => ~r.is_available
            /\ r.user_id \in Users =>
                 (~r.is_available <=> (out.code = 201 /\ Len(out.skipped_users) = 1))

\* Non-archived patients whose primary doctor is the given user.
ActivePatientsOf(doctor) ==
    {pt \in patients : pt.primary_doctor = doctor /\ ~pt.is_archived}

\* C28: after any sequence of create_patient, delete_patient,
\* restore_patient and permanent_delete_patient calls, for every doctor with
\* a UserStats row (which starts consistent, at 0 with no patients),
\* stats.patients is the number of non-archived patients whose
\* primary_doctor is that doctor, and it is never negative.
C28_PatientCountConsistent ==
    \A doctor \in DOMAIN user_stats :
        /\ user_stats[doctor].patients >= 0
        /\ role(doctor) = "doctor"
             => user_stats[doctor].patients = Cardinality(ActivePatientsOf(doctor))

\* The part of C28 the code keeps: the count is never negative.
C28_PatientCountNeverNegative ==
    \A doctor \in DOMAIN user_stats : user_stats[doctor].patients >= 0

\* The user's hospital records marked primary.
PrimaryHospitals(user) == {h \in hospitals : h.user = user /\ h.is_primary}

\* C29: over any sequence of adding, updating, set_primary_hospital and
\* deleting hospitals, a user has at most one hospital record with
\* is_primary, and set_primary_hospital(h) by the owner of h succeeds and
\* leaves exactly h primary.
C29_OnePrimaryHospital ==
    /\ \A user \in HospitalUsers : Cardinality(PrimaryHospitals(user)) <= 1
    /\ (/\ resp.op = "set_primary_hospital"
        /\ \E h \in hospitals : h.id = resp.hospital_id /\ h.user = resp.actor)
       => /\ resp.code = 200
          /\ {h.id : h \in PrimaryHospitals(resp.actor)} = {resp.hospital_id}

\* The part of C29 the code keeps: at most one primary hospital per user,
\* and no set_primary_hospital request ever succeeds.
C29_AtMostOnePrimary ==
    /\ \A user \in HospitalUsers : Cardinality(PrimaryHospitals(user)) <= 1
    /\ resp.op = "set_primary_hospital" => resp.code # 200

\* retry_upload resets exactly an upload in status 'error' and otherwise
\* changes nothing.
RetryResetsOnlyFailed ==
    resp'.op = "retry_upload"
    => IF resp'.code = 200
       THEN /\ resp'.upload_id \in DOMAIN uploads
            /\ uploads[resp'.upload_id].status = "error"
            /\ uploads' = [uploads EXCEPT ![resp'.upload_id].status = "pending",
                                          ![resp'.upload_id].progress = 0,
                                          ![resp'.upload_id].error_message = ""]
       ELSE uploads' = uploads

\* C30: over any sequence of start_chunked_upload, upload_chunk (integer
\* chunk_index >= 0, total_chunks >= 1) and retry_upload, the progress of
\* every upload stays within 0..100, an 'uploaded' upload has progress 100,
\* a further chunk does not move an 'uploaded' upload back to 'uploading',
\* and retry_upload succeeds only from 'error' (status 'pending', progress 0,
\* empty error_message) and otherwise changes nothing.
C30_UploadProgressAndStatus ==
    [][ /\ \A id \in DOMAIN uploads' :
             /\ uploads'[id].progress \in 0 .. 100
             /\ uploads'[id].status = "uploaded" => uploads'[id].progress = 100
        /\ resp'.op = "upload_chunk"
             => \A id \in DOMAIN uploads :
                    uploads[id].status = "uploaded" => uploads'[id].status # "uploading"
        /\ RetryResetsOnlyFailed
      ]_vars

\* The part of C30 the code keeps: 'uploaded' goes with progress 100, and
\* retry_upload acts only on an upload in status 'error'.
C30_UploadedIsCompleteAndRetryGuarded ==
    [][ /\ \A id \in DOMAIN uploads' :
             uploads'[id].status = "uploaded" => uploads'[id].progress = 100
        /\ RetryResetsOnlyFailed
      ]_vars

====
